---- MODULE Spec2Model ----
(***************************************************************************)
(* A model of src/src/build_dashboard.py: the formatters                   *)
(* (excel_serial_to_datetime, money0, money2, format_df_currency) as       *)
(* operators computed the way the code computes them, and build() as a     *)
(* state machine over the file system it reads and writes.                 *)
(*                                                                         *)
(* Display strings and cell texts are sequences of one-character strings.  *)
(* Two characters of the source are outside ASCII and are written here as  *)
(* the elements RUPEE (U+20B9) and EM_DASH (U+2014).                       *)
(***************************************************************************)
EXTENDS Integers, Sequences, FiniteSets, TLC

RUPEE == "Rs"
EM_DASH == "--"

(***************************************************************************)
(* Bounds of the model.                                                    *)
(***************************************************************************)
\* longest cell text drawn as an input of the formatters
MaxTextLen == 3
\* records of a table handed to format_df_currency
MaxRows == 2

(***************************************************************************)
(* Generic helpers on sequences.                                           *)
(***************************************************************************)
Range(s) == {s[i] : i \in 1..Len(s)}

RECURSIVE SeqsUpTo(_, _)
SeqsUpTo(S, n) ==
  IF n = 0 THEN {<<>>}
  ELSE LET shorter == SeqsUpTo(S, n - 1)
       IN  shorter \cup {Append(s, c) : s \in {t \in shorter : Len(t) = n - 1}, c \in S}

RECURSIVE Pow10(_)
Pow10(k) == IF k = 0 THEN 1 ELSE 10 * Pow10(k - 1)

Abs(n) == IF n < 0 THEN -n ELSE n

(***************************************************************************)
(* Cell values, as openpyxl hands them over (data_only=True):              *)
(*   none            an empty cell                                         *)
(*   bool  b         TRUE / FALSE                                          *)
(*   num   v         a finite number, v in hundredths (1234.5 is 123450)   *)
(*   nan             float NaN                                             *)
(*   inf   neg       float +inf / -inf                                     *)
(*   text  s         a string, s a sequence of characters                  *)
(*   date  day, dt   a date (dt = FALSE) or a datetime at midnight         *)
(*                   (dt = TRUE), day counted from 1899-12-30              *)
(***************************************************************************)
NoneV == [k |-> "none"]
BoolV(b) == [k |-> "bool", b |-> b]
NumV(v) == [k |-> "num", v |-> v]
NanV == [k |-> "nan"]
InfV(neg) == [k |-> "inf", neg |-> neg]
TextV(s) == [k |-> "text", s |-> s]
DateV(day, dt) == [k |-> "date", day |-> day, dt |-> dt]

\* The outcome of a call: a returned display string, or an exception.
Ret(s) == [raised |-> FALSE, s |-> s]
Raise(e) == [raised |-> TRUE, e |-> e]

(***************************************************************************)
(* Decimal digits.                                                         *)
(***************************************************************************)
DigitChars == <<"0", "1", "2", "3", "4", "5", "6", "7", "8", "9">>
IsDigit(c) == c \in Range(DigitChars)
DigitVal(c) == CHOOSE d \in 0..9 : DigitChars[d + 1] = c

\* str(n) for n >= 0
RECURSIVE Digits(_)
Digits(n) == IF n < 10 THEN <<DigitChars[n + 1]>>
             ELSE Append(Digits(n \div 10), DigitChars[(n % 10) + 1])

\* n >= 0 zero-padded on the left to at least w digits
RECURSIVE Pad(_, _)
Pad(s, w) == IF Len(s) >= w THEN s ELSE Pad(<<"0">> \o s, w)

\* the "," option of the format mini-language: digits grouped in threes
RECURSIVE Grouped(_)
Grouped(n) == IF n < 1000 THEN Digits(n)
              ELSE Grouped(n \div 1000) \o <<",">> \o Pad(Digits(n % 1000), 3)

\* the characters of a short ASCII word, one definition per literal the code uses
Chars_inf == <<"i", "n", "f">>
Chars_None == <<"N", "o", "n", "e">>
Chars_True == <<"T", "r", "u", "e">>
Chars_False == <<"F", "a", "l", "s", "e">>
Chars_midnight == <<" ", "0", "0", ":", "0", "0", ":", "0", "0">>

(***************************************************************************)
(* float(x).  A finite value is [neg, m, k]: (-1)^neg * m / 10^k, the sign  *)
(* kept apart as a float keeps it.  The text grammar is Python's for        *)
(* strings made of digits, "." and "-"; any other character makes float()  *)
(* raise ValueError (the letters of "inf", "nan", "e" and "_" are not      *)
(* among the characters the model draws texts from).                       *)
(***************************************************************************)
Finite(neg, m, k) == [raised |-> FALSE, f |-> "finite", neg |-> neg, m |-> m, k |-> k]

RECURSIVE DigitsValue(_)
DigitsValue(s) == IF s = <<>> THEN 0
                  ELSE 10 * DigitsValue(SubSeq(s, 1, Len(s) - 1)) + DigitVal(s[Len(s)])

ParseFloat(s) ==
  LET neg  == Len(s) > 0 /\ s[1] = "-"
      body == IF neg THEN Tail(s) ELSE s
      dots == {i \in 1..Len(body) : body[i] = "."}
      digs == SelectSeq(body, IsDigit)
  IN  IF /\ \A i \in 1..Len(body) : IsDigit(body[i]) \/ body[i] = "."
         /\ Cardinality(dots) <= 1
         /\ Len(digs) >= 1
      THEN Finite(neg, DigitsValue(digs),
                  IF dots = {} THEN 0 ELSE Len(body) - (CHOOSE i \in dots : TRUE))
      ELSE Raise("ValueError")

Float(x) ==
  CASE x.k = "none" -> Raise("TypeError")
    [] x.k = "bool" -> Finite(FALSE, IF x.b THEN 1 ELSE 0, 0)
    [] x.k = "num"  -> Finite(x.v < 0, Abs(x.v), 2)
    [] x.k = "nan"  -> [raised |-> FALSE, f |-> "nan"]
    [] x.k = "inf"  -> [raised |-> FALSE, f |-> "inf", neg |-> x.neg]
    [] x.k = "text" -> ParseFloat(x.s)
    [] x.k = "date" -> Raise("TypeError")

(***************************************************************************)
(* format(v, ",.{d}f") of a float: round half to even at d decimals, group *)
(* the integer part in threes, keep the sign of a value that rounds to 0.  *)
(* A tie is exact in binary floating point at d = 0 (x.5); the model's     *)
(* numbers carry at most two decimals, so d = 2 never rounds them.         *)
(***************************************************************************)
\* a variant that rounds a tie up instead of to even
RoundedHalfUp(m, k, d) ==
  IF k <= d THEN m * Pow10(d - k)
  ELSE LET unit == Pow10(k - d)
       IN  IF 2 * (m % unit) >= unit THEN (m \div unit) + 1 ELSE m \div unit

Rounded(m, k, d) ==
  IF k <= d THEN m * Pow10(d - k)
  ELSE LET unit == Pow10(k - d)
           q == m \div unit
           r == m % unit
       IN  IF 2 * r > unit \/ (2 * r = unit /\ q % 2 = 1) THEN q + 1 ELSE q

FormatFixed(f, d) ==
  CASE f.f = "nan" -> <<"n", "a", "n">>
    [] f.f = "inf" -> (IF f.neg THEN <<"-">> ELSE <<>>) \o Chars_inf
    [] f.f = "finite" ->
         LET scaled == Rounded(f.m, f.k, d)
         IN  (IF f.neg THEN <<"-">> ELSE <<>>)
             \o Grouped(scaled \div Pow10(d))
             \o (IF d = 0 THEN <<>> ELSE <<".">> \o Pad(Digits(scaled % Pow10(d)), d))

(***************************************************************************)
(* The proleptic Gregorian calendar of datetime: day 0 is 1899-12-30.      *)
(***************************************************************************)
MonthAbbr == << <<"J","a","n">>, <<"F","e","b">>, <<"M","a","r">>, <<"A","p","r">>,
                <<"M","a","y">>, <<"J","u","n">>, <<"J","u","l">>, <<"A","u","g">>,
                <<"S","e","p">>, <<"O","c","t">>, <<"N","o","v">>, <<"D","e","c">> >>

Civil(day) ==
  LET z   == day - 25569 + 719468
      era == z \div 146097
      doe == z - era * 146097
      yoe == (doe - doe \div 1460 + doe \div 36524 - doe \div 146096) \div 365
      doy == doe - (365 * yoe + yoe \div 4 - yoe \div 100)
      mp  == (5 * doy + 2) \div 153
      d   == doy - (153 * mp + 2) \div 5 + 1
      m   == IF mp < 10 THEN mp + 3 ELSE mp - 9
      y   == yoe + era * 400 + (IF m <= 2 THEN 1 ELSE 0)
  IN  [y |-> y, m |-> m, d |-> d]

\* strftime("%b %d, %Y")
Strftime(day) ==
  LET c == Civil(day)
  IN  MonthAbbr[c.m] \o <<" ">> \o Pad(Digits(c.d), 2) \o <<",", " ">> \o Pad(Digits(c.y), 4)

\* str(x) of a date ("YYYY-MM-DD") or of a datetime at midnight
IsoFormat(day, dt) ==
  LET c == Civil(day)
  IN  Pad(Digits(c.y), 4) \o <<"-">> \o Pad(Digits(c.m), 2) \o <<"-">> \o Pad(Digits(c.d), 2)
      \o (IF dt THEN Chars_midnight ELSE <<>>)

\* str(x), for the values the code applies it to
Str(x) ==
  CASE x.k = "none" -> Chars_None
    [] x.k = "bool" -> (IF x.b THEN Chars_True ELSE Chars_False)
    [] x.k = "text" -> x.s
    [] x.k = "date" -> IsoFormat(x.day, x.dt)

(***************************************************************************)
(* The formatters.                                                         *)
(***************************************************************************)
\* pd.to_timedelta(float(x), unit="D") added to the epoch, then strftime.
\* NaN gives NaT, whose strftime raises; a Timedelta counts nanoseconds in 64
\* bits, so an offset of 106752 days or more, or an infinite one, cannot be
\* converted.
SerialToDate(f) ==
  CASE f.f = "nan" -> Raise("ValueError")
    [] f.f = "inf" -> Raise("OverflowError")
    [] f.f = "finite" ->
         LET unit == Pow10(f.k)
             days == IF f.neg THEN -((f.m + unit - 1) \div unit) ELSE f.m \div unit
         IN  IF f.m \div unit >= 106752 THEN Raise("OutOfBoundsTimedelta")
             ELSE Ret(Strftime(days))

\* bool(x) of a number
Truthy(x) ==
  CASE x.k = "bool" -> x.b
    [] x.k = "num"  -> x.v # 0
    [] x.k = "nan"  -> TRUE
    [] x.k = "inf"  -> TRUE

excel_serial_to_datetime(x) ==
  IF x.k = "date" THEN Ret(Strftime(x.day))
  ELSE IF x.k \in {"bool", "num", "nan", "inf"} /\ Truthy(x) THEN SerialToDate(Float(x))
  ELSE Ret(<<EM_DASH>>)

\* the body shared by money0 (d = 0) and money2 (d = 2)
Money(x, d) ==
  LET zero == <<RUPEE, "0">> \o (IF d = 0 THEN <<>> ELSE <<".">> \o Pad(<<>>, d))
      f == Float(x)
  IN  IF x.k = "none" THEN Ret(zero)
      ELSE IF x.k = "nan" THEN Ret(zero)
      ELSE IF f.raised THEN Ret(Str(x))
      ELSE Ret(<<RUPEE>> \o FormatFixed(f, d))

money0(x) == Money(x, 0)

money2(x) == Money(x, 2)

(***************************************************************************)
(* Tables.  A DataFrame is [cols, rows]: the column labels in order (the   *)
(* header cells, distinct here) and the data rows, each aligned to cols.   *)
(***************************************************************************)
LowerChar(c) ==
  LET up == <<"A","B","C","D","E","F","G","H","I","J","K","L","M",
              "N","O","P","Q","R","S","T","U","V","W","X","Y","Z">>
      lo == <<"a","b","c","d","e","f","g","h","i","j","k","l","m",
              "n","o","p","q","r","s","t","u","v","w","x","y","z">>
  IN  IF \E i \in 1..26 : up[i] = c THEN lo[CHOOSE i \in 1..26 : up[i] = c] ELSE c

\* str.lower()
Lower(s) == [i \in 1..Len(s) |-> LowerChar(s[i])]

\* sub in s
Contains(s, sub) ==
  \E i \in 0..(Len(s) - Len(sub)) : SubSeq(s, i + 1, i + Len(sub)) = sub

CurrencyKeywords ==
  { <<"a","m","o","u","n","t">>, <<"v","a","l","u","e">>, <<"p","a","i","d">>,
    <<"b","a","l","a","n","c","e">>, <<"t","a","r","g","e","t">>,
    <<"e","x","c","e","s","s">>, <<"c","o","l","l","e","c","t","e","d">>,
    <<"t","r","a","n","s","f","e","r","r","e","d">>, <<"s","h","a","r","e">> }

\* a variant that compares the keywords without lowering the label
IsCurrencyColumnCaseSensitive(col) ==
  LET col_s == Str(col)
  IN  Contains(col_s, <<RUPEE>>) \/ \E kw \in CurrencyKeywords : Contains(col_s, kw)

\* the test of line 113 on one column label
IsCurrencyColumn(col) ==
  LET col_s == Str(col)
  IN  Contains(col_s, <<RUPEE>>) \/ \E kw \in CurrencyKeywords : Contains(Lower(col_s), kw)

\* df2[col] = df2[col].apply(money2), for every column the test selects
ApplyMoney2Columns(df2) ==
  LET selected == {c \in 1..Len(df2.cols) : IsCurrencyColumn(df2.cols[c])}
  IN  [df2 EXCEPT !.rows =
         [r \in 1..Len(df2.rows) |->
            [c \in 1..Len(df2.cols) |->
               IF c \in selected THEN TextV(money2(df2.rows[r][c]).s)
               ELSE df2.rows[r][c]]]]

\* DataFrame.to_dict(orient="records")
ToRecords(df) ==
  [r \in 1..Len(df.rows) |->
     [name \in Range(df.cols) |->
        df.rows[r][CHOOSE c \in 1..Len(df.cols) : df.cols[c] = name]]]

\* df.copy() hands the loop an object of its own
DfCopyIsFresh == TRUE

\* the result, and what the caller's table holds after the call
format_df_currency(df) ==
  LET df2 == ApplyMoney2Columns(df)
  IN  [records |-> ToRecords(df2), cols |-> df2.cols,
       arg |-> IF DfCopyIsFresh THEN df ELSE df2]

(***************************************************************************)
(* Inputs the formatters are applied to.                                   *)
(***************************************************************************)
TextAlphabet == {"7", ".", "-", "k"}
Texts == SeqsUpTo(TextAlphabet, MaxTextLen) \ {<<>>}

\* hundredths: 0, 0.5, -0.4, 1, 61, 999.5, 1000, 1234.5, 1235.5, 45000.5, -1234567.89
Numbers == {0, 50, -40, 100, 6100, 99950, 100000, 123450, 123550, 4500050, -123456789}

Days == {0, 61, 45000}

CellValues ==
  {NoneV, NanV} \cup {BoolV(b) : b \in BOOLEAN} \cup {NumV(v) : v \in Numbers}
  \cup {InfV(neg) : neg \in BOOLEAN} \cup {TextV(t) : t \in Texts}
  \cup {DateV(d, dt) : d \in Days, dt \in BOOLEAN}

Name_Target == TextV(<<"T","a","r","g","e","t"," ","(",RUPEE,")">>)
Name_Category == TextV(<<"C","a","t","e","g","o","r","y">>)
Name_Partner == TextV(<<"P","a","r","t","n","e","r">>)
Name_Glyph == TextV(<<"(",RUPEE,")">>)
Name_AMOUNT == TextV(<<"A","M","O","U","N","T">>)
Name_Value == TextV(<<"N","e","t"," ","V","a","l","u","e">>)
Name_Paid == TextV(<<"P","a","i","d">>)
Name_Balance == TextV(<<"B","a","l","a","n","c","e">>)
Name_Excess == TextV(<<"E","x","c","e","s","s">>)
Name_Collected == TextV(<<"C","o","l","l","e","c","t","e","d">>)
Name_Transferred == TextV(<<"T","r","a","n","s","f","e","r","r","e","d">>)
Name_Share == TextV(<<"S","h","a","r","e"," ","%">>)
Name_Shar == TextV(<<"S","h","a","r">>)

ColumnNames ==
  {Name_Target, Name_Category, Name_Partner, Name_Glyph, Name_AMOUNT, Name_Value,
   Name_Paid, Name_Balance, Name_Excess, Name_Collected, Name_Transferred,
   Name_Share, Name_Shar, NoneV}

TableCells == {NumV(123450), TextV(<<"k">>)}

\* two distinct columns, 1..MaxRows records
Tables ==
  {[cols |-> p, rows |-> rows] :
     p \in {q \in ColumnNames \X ColumnNames : q[1] # q[2]},
     rows \in UNION {[1..n -> [1..2 -> TableCells]] : n \in 1..MaxRows}}

(***************************************************************************)
(* build(): configuration (lines 20-59).                                   *)
(***************************************************************************)
SHEET_SUMMARY == "Summary"
SHEET_DASHBOARD == "Dashboard"
CONTRIB_DATA_ROWS == <<18, 20>>
CASH_DATA_ROWS == <<26, 28>>

(***************************************************************************)
(* Chart slots (lines 166-198).  Header labels of the chart tables are     *)
(* plain strings, compared whole; "(Rs)" stands for the rupee glyph.       *)
(***************************************************************************)
Slots == <<"month", "profit", "cat_qty", "pending_val">>
SlotSet == Range(Slots)

\* the table a slot is drawn from
SlotTable(slot) ==
  CASE slot \in {"month", "profit"} -> "month"
    [] slot = "cat_qty" -> "cat_qty"
    [] slot = "pending_val" -> "pending_val"

\* the issubset tests of lines 170, 179, 185, 194
Expected(slot) ==
  CASE slot = "month" -> {"Month", "Purchases (Rs)", "Sales (Rs)"}
    [] slot = "profit" -> {"Month", "Profit (Rs)"}
    [] slot = "cat_qty" -> {"Category", "Qty Sold", "Qty Pending"}
    [] slot = "pending_val" -> {"Category", "Pending Value (Rs)"}

\* the columns lines 153, 158, 163 coerce with pd.to_numeric
NumericColumns(table) ==
  CASE table = "month" -> {"Purchases (Rs)", "Sales (Rs)", "Profit (Rs)"}
    [] table = "cat_qty" -> {"Qty Sold", "Qty Pending"}
    [] table = "pending_val" -> {"Pending Value (Rs)"}

Placeholder(slot) ==
  [markup |-> FALSE,
   text |-> CASE slot = "month" -> "Monthly chart unavailable (columns changed)."
              [] slot = "profit" -> "Profit chart unavailable (columns changed)."
              [] slot = "cat_qty" -> "Category qty chart unavailable (columns changed)."
              [] slot = "pending_val" -> "Pending value chart unavailable (columns changed)."]

\* the include_plotlyjs argument of each pio.to_html call
IncludePlotlyJs(slot) == IF slot = "month" THEN "cdn" ELSE "no"

\* pio.to_html(fig, include_plotlyjs=..., full_html=False): a div whose id is a
\* uuid4 drawn by the call (no div_id is passed), with the figure of the slot
to_html(slot, div_id) ==
  [markup |-> TRUE, fig |-> slot, div_id |-> div_id, plotlyjs |-> IncludePlotlyJs(slot)]

Count(row, name) == Cardinality({i \in 1..Len(row) : row[i] = name})

\* month_df[c] = pd.to_numeric(month_df[c], ...): with the label c on two
\* columns month_df[c] is a DataFrame, which to_numeric refuses (TypeError)
ToNumericRaises(table, row) ==
  \E c \in NumericColumns(table) : c \in Range(row) /\ Count(row, c) > 1

Built(slot, headers) == Expected(slot) \subseteq Range(headers[SlotTable(slot)])

(***************************************************************************)
(* The two narrowed tables (lines 140-149, 200-201).                       *)
(***************************************************************************)
\* contrib_df.iloc[:, [0, -2, -1]]
Iloc(df) ==
  LET n == Len(df.cols)
      pick(r) == <<r[1], r[n - 1], r[n]>>
  IN  [cols |-> pick(df.cols), rows |-> [r \in 1..Len(df.rows) |-> pick(df.rows[r])]]

(***************************************************************************)
(* The render context (lines 207-225).                                     *)
(***************************************************************************)
\* int(x), shown as jinja2 shows an int
RECURSIVE IsAllDigits(_)
IsAllDigits(s) == s = <<>> \/ (IsDigit(Head(s)) /\ IsAllDigits(Tail(s)))

IntOf(x) ==
  CASE x.k = "bool" -> Ret(IF x.b THEN <<"1">> ELSE <<"0">>)
    [] x.k = "num"  -> Ret((IF x.v <= -100 THEN <<"-">> ELSE <<>>) \o Digits(Abs(x.v) \div 100))
    [] x.k = "nan"  -> Raise("ValueError")
    [] x.k = "inf"  -> Raise("OverflowError")
    [] x.k = "text" ->
         LET neg  == Len(x.s) > 0 /\ x.s[1] = "-"
             body == IF neg THEN Tail(x.s) ELSE x.s
         IN  IF body # <<>> /\ IsAllDigits(body)
             THEN Ret((IF neg /\ DigitsValue(body) # 0 THEN <<"-">> ELSE <<>>)
                      \o Digits(DigitsValue(body)))
             ELSE Raise("ValueError")
    [] x.k = "date" -> Raise("TypeError")

\* int(qty) if qty is not None else EM_DASH
QtyDisplay(x) == IF x.k = "none" THEN Ret(<<EM_DASH>>) ELSE IntOf(x)

\* bool(x) of any cell value
Falsy(x) ==
  CASE x.k = "none" -> TRUE
    [] x.k = "text" -> x.s = <<>>
    [] x.k = "date" -> FALSE
    [] OTHER -> ~Truthy(x)

\* str(x) of a number: an int as its digits, a float with its decimals
StrNum(v) ==
  (IF v < 0 THEN <<"-">> ELSE <<>>) \o Digits(Abs(v) \div 100)
  \o (IF v % 100 = 0 THEN <<>>
      ELSE <<".">> \o (IF Abs(v) % 10 = 0 THEN Digits((Abs(v) % 100) \div 10)
                       ELSE Pad(Digits(Abs(v) % 100), 2)))

\* str(profit_status or "")
StatusDisplay(x) ==
  IF Falsy(x) THEN <<>> ELSE IF x.k = "num" THEN StrNum(x.v) ELSE Str(x)

\* tpl.render(**context): the page the template makes of the values it is
\* given; the template (src/template.html) embeds every value it receives
TemplateRender(context) == [page |-> "index.html", values |-> context]

(***************************************************************************)
(* Files.                                                                  *)
(***************************************************************************)
NoFile == [file |-> FALSE]
File(content) == [file |-> TRUE, content |-> content]
\* what a file holds when the write that was filling it failed
Partial == [partial |-> TRUE]
Xlsx(bytes) == [bytes |-> bytes]
\* what an earlier build, of other input, left in the output directory
PriorHtml == [page |-> "index.html of an earlier build"]
PriorXlsx == Xlsx("xlsx_prior")

\* the paths of __main__ (lines 237-240) and of lines 205, 227
INPUT_XLSX == "input/Chiraath - Business Summary - Latest.xlsx"
INDEX_HTML == "docs/index.html"
EXCEL_COPY == "docs/Chiraath-Business-Summary-Latest.xlsx"

\* a variant with the two paths exchanged
copyfile_reversed(files, src, dst) == [files EXCEPT ![src] = files[dst]]

\* shutil.copyfile(src, dst)
copyfile(files, src, dst) == [files EXCEPT ![dst] = files[src]]

\* Path.write_text(data)
write_text(files, path, data) == [files EXCEPT ![path] = File(data)]

(***************************************************************************)
(* Workbooks the build is run on.                                          *)
(***************************************************************************)
StandardHeaders ==
  [month       |-> <<"Month", "Purchases (Rs)", "Sales (Rs)", "Profit (Rs)">>,
   cat_qty     |-> <<"Category", "Qty Sold", "Qty Pending">>,
   pending_val |-> <<"Category", "Pending Value (Rs)">>]

\* header rows after a change of layout: a label renamed, or a numeric label
\* put on a second column
MonthRows ==
  {<<a, b, c, d>> :
     a \in {"Month", "month"},
     b \in {"Purchases (Rs)", "Purchases", "Sales (Rs)"},
     c \in {"Sales (Rs)", "Sales", "Purchases (Rs)"},
     d \in {"Profit (Rs)", "Profit", "Purchases (Rs)"}}

CatQtyRows ==
  {<<a, b, c>> :
     a \in {"Category", "category"},
     b \in {"Qty Sold", "Sold"},
     c \in {"Qty Pending", "Pending", "Qty Sold"}}

PendingValRows ==
  {<<a, b>> : a \in {"Category", "category"}, b \in {"Pending Value (Rs)", "Pending Value"}}

HeaderLayouts ==
  {[month |-> m, cat_qty |-> c, pending_val |-> p] :
     m \in MonthRows, c \in CatQtyRows, p \in PendingValRows}

StandardKpis ==
  [total_purchases |-> NumV(123450), total_sales_completed |-> NumV(123550),
   profit_loss |-> NumV(-40), profit_status |-> TextV(<<"k">>),
   last_updated |-> NumV(4500050), pending_stock_value |-> NumV(99950),
   qty_sold |-> NumV(6100), qty_pending |-> NumV(100)]

\* what the eight cells may hold: empty, a number, a text, a date
KpiCells ==
  [total_purchases : {NumV(123450), NoneV},
   total_sales_completed : {NumV(123550), TextV(<<"k">>)},
   profit_loss : {NumV(-40), DateV(45000, TRUE)},
   profit_status : {TextV(<<"k">>), NoneV},
   last_updated : {NumV(4500050), NumV(0), NoneV, TextV(<<"7">>), DateV(45000, TRUE)},
   pending_stock_value : {NumV(99950), NoneV},
   qty_sold : {NumV(6100), NoneV, TextV(<<"7">>), TextV(<<"k">>), DateV(45000, FALSE)},
   qty_pending : {NumV(100), NoneV, TextV(<<"7", ".", "7">>)}]

\* the two tables of the Summary sheet that are shown as tables
ContribTable ==
  [cols |-> <<Name_Partner, Name_Target, Name_Paid, Name_Balance, Name_Excess,
              Name_Share, Name_Value>>,
   rows |-> [r \in 1..(CONTRIB_DATA_ROWS[2] - CONTRIB_DATA_ROWS[1] + 1) |->
               <<TextV(<<"k">>), NumV(100000), NumV(99950), NumV(50), NoneV,
                 NumV(50), NumV(123450)>>]]

CashTable ==
  [cols |-> <<Name_Partner, Name_Collected, Name_Transferred, Name_Balance,
              Name_Category, Name_AMOUNT, NoneV>>,
   rows |-> [r \in 1..(CASH_DATA_ROWS[2] - CASH_DATA_ROWS[1] + 1) |->
               <<TextV(<<"k">>), NumV(100000), NumV(99950), NumV(50), TextV(<<"k">>),
                 NumV(123450), NoneV>>]]

\* the steps at which the environment can make a run fail
Faults ==
  {"none", "input_missing", "mkdir_fault", "workbook_unreadable", "no_summary",
   "no_dashboard", "template_unreadable", "render_fault", "html_write_fault",
   "copy_fault"}

\* the sheets of the workbook
SheetNames(f) ==
  {SHEET_SUMMARY, SHEET_DASHBOARD}
  \ (IF f = "no_summary" THEN {SHEET_SUMMARY}
     ELSE IF f = "no_dashboard" THEN {SHEET_DASHBOARD} ELSE {})

(***************************************************************************)
(* State.                                                                  *)
(*   fault            the step the environment makes fail, if any          *)
(*   wb               the workbook: its KPI cells and chart header rows    *)
(*   budget           how many times the program is run                    *)
(*   input0           the input spreadsheet as it was before the first run *)
(*   dist, files      the output directory and the files                   *)
(*   pc, run          the position in build(), the number of the run       *)
(*   error            the exception that ended the run, "" if none         *)
(*   wrote            what this run created or wrote                       *)
(*   stdout           the lines this run printed                           *)
(*   uuid_next        the next value uuid4 hands out                       *)
(*   last_updated, charts, contrib, cash, html     locals of build()       *)
(*   pages            the index.html each run wrote, in order              *)
(*   fx, fdf          the cell and the table the formatters are applied to *)
(*   fpc              which formatter is applied next                      *)
(*   r_date, r_money0, r_money2, r_df    what each call returned           *)
(***************************************************************************)
VARIABLES fault, wb, budget, input0, dist, files, pc, run, error, wrote, stdout,
          uuid_next, last_updated, charts, contrib, cash, html, pages,
          fx, fdf, fpc, r_date, r_money0, r_money2, r_df

fvars == <<fx, fdf, fpc, r_date, r_money0, r_money2, r_df>>

env == <<fault, wb, budget, input0>>
locals == <<last_updated, charts, contrib, cash, html>>
bvars == <<fault, wb, budget, input0, dist, files, pc, run, error, wrote, stdout,
           uuid_next, last_updated, charts, contrib, cash, html, pages>>

vars == <<bvars, fvars>>

NotCalled == Raise("not called")
EmptyDf == [cols |-> <<>>, rows |-> <<>>]
NoDfResult == [records |-> <<>>, cols |-> <<>>, arg |-> EmptyDf]

NoChart == [markup |-> FALSE, text |-> ""]
NoTable == [records |-> <<>>, cols |-> <<>>]
NoHtml == [page |-> ""]

LocalsUnset ==
  /\ last_updated = <<>>
  /\ charts = [s \in SlotSet |-> NoChart]
  /\ contrib = NoTable
  /\ cash = NoTable
  /\ html = NoHtml

\* the formatters are not running
FmtIdle ==
  /\ fx = NoneV /\ fdf = EmptyDf /\ fpc = "off"
  /\ r_date = NotCalled /\ r_money0 = NotCalled /\ r_money2 = NotCalled
  /\ r_df = NoDfResult

\* the program is not running
BuildIdle ==
  /\ fault = "none" /\ wb = [kpi |-> StandardKpis, headers |-> StandardHeaders]
  /\ budget = 0 /\ input0 = NoFile
  /\ dist = "absent"
  /\ files = [f \in {INPUT_XLSX, INDEX_HTML, EXCEL_COPY} |-> NoFile]
  /\ pc = "off" /\ run = 0 /\ error = "" /\ wrote = {} /\ stdout = <<>>
  /\ uuid_next = 1 /\ pages = <<>>
  /\ LocalsUnset

FmtInit ==
  /\ \/ fx \in CellValues /\ fdf = EmptyDf /\ fpc = "date"
     \/ fx = NoneV /\ fdf \in Tables /\ fpc = "df"
  /\ r_date = NotCalled
  /\ r_money0 = NotCalled
  /\ r_money2 = NotCalled
  /\ r_df = NoDfResult
  /\ BuildIdle

CallDate ==
  /\ fpc = "date"
  /\ UNCHANGED bvars
  /\ r_date' = excel_serial_to_datetime(fx)
  /\ fpc' = "money0"
  /\ UNCHANGED <<fx, fdf, r_money0, r_money2, r_df>>

CallMoney0 ==
  /\ fpc = "money0"
  /\ UNCHANGED bvars
  /\ r_money0' = money0(fx)
  /\ fpc' = "money2"
  /\ UNCHANGED <<fx, fdf, r_date, r_money2, r_df>>

CallMoney2 ==
  /\ fpc = "money2"
  /\ UNCHANGED bvars
  /\ r_money2' = money2(fx)
  /\ fpc' = "done"
  /\ UNCHANGED <<fx, fdf, r_date, r_money0, r_df>>

CallFormatDf ==
  /\ fpc = "df"
  /\ UNCHANGED bvars
  /\ LET res == format_df_currency(fdf)
     IN  /\ r_df' = [records |-> res.records, cols |-> res.cols, arg |-> fdf]
         /\ fdf' = res.arg
  /\ fpc' = "done"
  /\ UNCHANGED <<fx, r_date, r_money0, r_money2>>

FmtNext == CallDate \/ CallMoney0 \/ CallMoney2 \/ CallFormatDf

FmtSpec == FmtInit /\ [][FmtNext]_vars

(***************************************************************************)
(* The program: __main__ (lines 236-245) and build() (lines 121-233).      *)
(***************************************************************************)
\* the states a run can start from: one dimension of the input is varied at
\* a time, the others are as the author's workbook has them
OutputBefore ==
  { [dist |-> "absent", index |-> NoFile, copy |-> NoFile],
    [dist |-> "dir", index |-> NoFile, copy |-> NoFile],
    [dist |-> "dir", index |-> File(PriorHtml), copy |-> File(PriorXlsx)] }

Init ==
  /\ \/ /\ fault \in Faults
        /\ wb = [kpi |-> StandardKpis, headers |-> StandardHeaders]
        /\ budget \in {1, 2}
        /\ \E out \in OutputBefore, bytes \in {"xlsx_a", "xlsx_b"} :
             /\ dist = out.dist
             /\ input0 = IF fault = "input_missing" THEN NoFile ELSE File(Xlsx(bytes))
             /\ files = [f \in {INPUT_XLSX, INDEX_HTML, EXCEL_COPY} |->
                           CASE f = INPUT_XLSX -> input0
                             [] f = INDEX_HTML -> out.index
                             [] f = EXCEL_COPY -> out.copy]
     \/ /\ fault = "none"
        /\ \/ wb \in [kpi : {StandardKpis}, headers : HeaderLayouts] /\ budget = 2
           \/ wb \in [kpi : KpiCells, headers : {StandardHeaders}] /\ budget = 1
        /\ dist = "absent"
        /\ input0 = File(Xlsx("xlsx_a"))
        /\ files = [f \in {INPUT_XLSX, INDEX_HTML, EXCEL_COPY} |->
                      IF f = INPUT_XLSX THEN input0 ELSE NoFile]
  /\ pc = "main" /\ run = 1 /\ error = "" /\ wrote = {} /\ stdout = <<>>
  /\ uuid_next = 1 /\ pages = <<>>
  /\ LocalsUnset
  /\ FmtIdle

Abort(e) == pc' = "aborted" /\ error' = e

\* lines 242-243: the input file must exist
Main ==
  /\ pc = "main"
  /\ UNCHANGED fvars
  /\ IF files[INPUT_XLSX].file THEN pc' = "mkdir" /\ error' = error
     ELSE Abort("FileNotFoundError:243")
  /\ UNCHANGED <<env, dist, files, run, wrote, stdout, uuid_next, locals, pages>>

\* line 122: dist_dir.mkdir(parents=True, exist_ok=True)
Mkdir ==
  /\ pc = "mkdir"
  /\ UNCHANGED fvars
  /\ IF fault = "mkdir_fault"
     THEN Abort("OSError:122") /\ UNCHANGED <<dist, wrote>>
     ELSE /\ dist' = "dir"
          /\ wrote' = IF dist = "absent" THEN wrote \cup {"dist_dir"} ELSE wrote
          /\ pc' = "load" /\ error' = error
  /\ UNCHANGED <<env, files, run, stdout, uuid_next, locals, pages>>

\* lines 124-126: open the workbook, look up the two sheets
LoadWorkbook ==
  /\ pc = "load"
  /\ UNCHANGED fvars
  /\ CASE fault = "workbook_unreadable" -> Abort("InvalidFileException:124")
       [] SHEET_SUMMARY \notin SheetNames(fault) -> Abort("KeyError:125")
       [] SHEET_DASHBOARD \notin SheetNames(fault) -> Abort("KeyError:126")
       [] OTHER -> pc' = "extract" /\ error' = error
  /\ UNCHANGED <<env, dist, files, run, wrote, stdout, uuid_next, locals, pages>>

\* lines 129-164: the KPI cells, the five tables, the numeric coercions
Extract ==
  /\ pc = "extract"
  /\ UNCHANGED fvars
  /\ LET lu == excel_serial_to_datetime(wb.kpi.last_updated)
     IN  IF lu.raised
         THEN Abort(lu.e \o ":134") /\ UNCHANGED last_updated
         ELSE /\ last_updated' = lu.s
              /\ CASE ToNumericRaises("month", wb.headers.month) -> Abort("TypeError:155")
                   [] ToNumericRaises("cat_qty", wb.headers.cat_qty) -> Abort("TypeError:160")
                   [] ToNumericRaises("pending_val", wb.headers.pending_val) ->
                        Abort("TypeError:164")
                   [] OTHER -> pc' = "charts" /\ error' = error
  /\ UNCHANGED <<env, dist, files, run, wrote, stdout, uuid_next, charts, contrib, cash,
                 html, pages>>

\* the div ids of the charts that are built, in the order of the calls
RECURSIVE DivIds(_, _, _)
DivIds(i, next, headers) ==
  IF i > Len(Slots) THEN [s \in {} |-> 0]
  ELSE LET slot == Slots[i]
           rest == DivIds(i + 1, IF Built(slot, headers) THEN next + 1 ELSE next, headers)
       IN  IF Built(slot, headers) THEN (slot :> next) @@ rest ELSE rest

\* lines 166-201: the four chart slots, then the two formatted tables
BuildCharts ==
  /\ pc = "charts"
  /\ UNCHANGED fvars
  /\ LET ids == DivIds(1, uuid_next, wb.headers)
         tc  == format_df_currency(Iloc(ContribTable))
         th  == format_df_currency(Iloc(CashTable))
     IN  /\ charts' = [s \in SlotSet |->
                         IF Built(s, wb.headers) THEN to_html(s, ids[s])
                         ELSE Placeholder(s)]
         /\ uuid_next' = uuid_next + Cardinality(DOMAIN ids)
         /\ contrib' = [records |-> tc.records, cols |-> tc.cols]
         /\ cash' = [records |-> th.records, cols |-> th.cols]
  /\ pc' = "template"
  /\ UNCHANGED <<env, dist, files, run, error, wrote, stdout, last_updated, html, pages>>

\* line 204: read and compile the template
ReadTemplate ==
  /\ pc = "template"
  /\ UNCHANGED fvars
  /\ IF fault = "template_unreadable" THEN Abort("OSError:204")
     ELSE pc' = "render" /\ error' = error
  /\ UNCHANGED <<env, dist, files, run, wrote, stdout, uuid_next, locals, pages>>

\* lines 207-225: the context, then tpl.render
Context(qs, qp) ==
  [last_updated |-> last_updated,
   qty_sold |-> qs,
   qty_pending |-> qp,
   total_purchases |-> money0(wb.kpi.total_purchases).s,
   total_sales_completed |-> money0(wb.kpi.total_sales_completed).s,
   profit_loss |-> money0(wb.kpi.profit_loss).s,
   profit_status |-> StatusDisplay(wb.kpi.profit_status),
   pending_stock_value |-> money2(wb.kpi.pending_stock_value).s,
   chart_month |-> charts["month"],
   chart_profit |-> charts["profit"],
   chart_cat_qty |-> charts["cat_qty"],
   chart_pending_val |-> charts["pending_val"],
   contrib_cols |-> contrib.cols,
   contrib_records |-> contrib.records,
   cash_cols |-> cash.cols,
   cash_records |-> cash.records,
   excel_filename |-> EXCEL_COPY]

Render ==
  /\ pc = "render"
  /\ UNCHANGED fvars
  /\ LET qs == QtyDisplay(wb.kpi.qty_sold)
         qp == QtyDisplay(wb.kpi.qty_pending)
     IN  CASE qs.raised -> Abort(qs.e \o ":209") /\ UNCHANGED html
           [] qp.raised -> Abort(qp.e \o ":210") /\ UNCHANGED html
           [] fault = "render_fault" -> Abort("TemplateError:207") /\ UNCHANGED html
           [] OTHER -> /\ html' = TemplateRender(Context(qs.s, qp.s))
                       /\ pc' = "write" /\ error' = error
  /\ UNCHANGED <<env, dist, files, run, wrote, stdout, uuid_next, last_updated, charts,
                 contrib, cash, pages>>

\* line 227: write index.html; a failing write leaves the file as it was or
\* cut short
WriteHtml ==
  /\ pc = "write"
  /\ UNCHANGED fvars
  /\ IF fault = "html_write_fault"
     THEN /\ Abort("OSError:227")
          /\ \/ UNCHANGED <<files, wrote>>
             \/ /\ files' = write_text(files, INDEX_HTML, Partial)
                /\ wrote' = wrote \cup {"index.html"}
          /\ UNCHANGED pages
     ELSE /\ files' = write_text(files, INDEX_HTML, html)
          /\ wrote' = wrote \cup {"index.html"}
          /\ pages' = Append(pages, files'[INDEX_HTML].content)
          /\ pc' = "copy" /\ error' = error
  /\ UNCHANGED <<env, dist, run, stdout, uuid_next, locals>>

\* line 230: copy the spreadsheet next to it
CopyExcel ==
  /\ pc = "copy"
  /\ UNCHANGED fvars
  /\ IF fault = "copy_fault"
     THEN /\ Abort("OSError:230")
          /\ \/ UNCHANGED <<files, wrote>>
             \/ /\ files' = write_text(files, EXCEL_COPY, Partial)
                /\ wrote' = wrote \cup {"excel_copy"}
     ELSE /\ files' = copyfile(files, INPUT_XLSX, EXCEL_COPY)
          /\ wrote' = wrote \cup {"excel_copy"}
          /\ pc' = "print" /\ error' = error
  /\ UNCHANGED <<env, dist, run, stdout, uuid_next, locals, pages>>

\* lines 232-233: the two completion lines
PrintDone ==
  /\ pc = "print"
  /\ UNCHANGED fvars
  /\ stdout' = stdout \o <<"Built dashboard: " \o INDEX_HTML,
                           "Excel download file: " \o EXCEL_COPY>>
  /\ pc' = "done"
  /\ UNCHANGED <<env, dist, files, run, error, wrote, uuid_next, locals, pages>>

\* the program is started again, on the same input and template
Rerun ==
  /\ pc \in {"done", "aborted"}
  /\ UNCHANGED fvars
  /\ run < budget
  /\ run' = run + 1
  /\ pc' = "main" /\ error' = "" /\ wrote' = {} /\ stdout' = <<>>
  /\ last_updated' = <<>>
  /\ charts' = [s \in SlotSet |-> NoChart]
  /\ contrib' = NoTable
  /\ cash' = NoTable
  /\ html' = NoHtml
  /\ UNCHANGED <<env, dist, files, uuid_next, pages>>

Next ==
  \/ Main \/ Mkdir \/ LoadWorkbook \/ Extract \/ BuildCharts \/ ReadTemplate
  \/ Render \/ WriteHtml \/ CopyExcel \/ PrintDone \/ Rerun

Spec == Init /\ [][Next]_vars

(***************************************************************************)
(* Properties.                                                             *)
(***************************************************************************)
Str_Dec30_1899 == <<"D","e","c"," ","3","0",","," ","1","8","9","9">>
Str_Money0_1234 == <<RUPEE, "1", ",", "2", "3", "4">>
Str_Money2_1234 == <<RUPEE, "1", ",", "2", "3", "4", ".", "5", "0">>
Str_Money0_Zero == <<RUPEE, "0">>
Str_Money2_Zero == <<RUPEE, "0", ".", "0", "0">>

\* C1: every run either completes with index.html and the spreadsheet copy
\* written, or aborts having written nothing to the output location: no
\* output directory created, no index.html, no copy.
C1_BinaryOutcome ==
  /\ pc = "aborted" => wrote = {}
  /\ pc = "done" => {"index.html", "excel_copy"} \subseteq wrote

\* C2: two runs on the same unchanged workbook and template write the same
\* index.html, also when chart slots are built as chart markup.
C2_SamePageTwice ==
  (pc = "done" /\ run = 2 /\ Len(pages) = 2) => pages[1] = pages[2]

\* C3: with the files present and the KPI cells as usual, whatever the header
\* rows are, no run aborts, and once the charts are built each slot holds its
\* placeholder exactly when one of its expected columns is absent, and chart
\* markup otherwise.
C3_ChartDegradation ==
  (fault = "none" /\ wb.kpi = StandardKpis) =>
    /\ pc # "aborted"
    /\ pc \in {"template", "render", "write", "copy", "print", "done"} =>
         \A s \in SlotSet :
           IF Expected(s) \subseteq Range(wb.headers[SlotTable(s)])
           THEN charts[s].markup /\ charts[s].fig = s
           ELSE charts[s] = Placeholder(s)

\* the days datetime can hold: 0001-01-01 .. 9999-12-31
InCalendar(day) == -693593 <= day /\ day <= 2958465

\* C4: excel_serial_to_datetime maps the serial 0 to "Dec 30, 1899", every
\* other numeric serial n to the formatted date 1899-12-30 plus n days (the
\* time of day dropped), and None and non-numeric strings to the em-dash
\* placeholder.
C4_DateFormatter ==
  (fpc \in {"money0", "money2", "done"} /\ fdf = EmptyDf) =>
    /\ fx = NumV(0) => r_date = Ret(Str_Dec30_1899)
    /\ (fx.k = "num" /\ fx.v # 0 /\ InCalendar(fx.v \div 100)) =>
         r_date = Ret(Strftime(fx.v \div 100))
    /\ (fx.k = "none" \/ (fx.k = "text" /\ ParseFloat(fx.s).raised)) =>
         r_date = Ret(<<EM_DASH>>)

\* C5: each formatter returns a display string for every kind of cell value
\* and never raises.
C5_FormattersTotal ==
  /\ (fpc \in {"money0", "money2", "done"} /\ fdf = EmptyDf) => ~r_date.raised
  /\ (fpc \in {"money2", "done"} /\ fdf = EmptyDf) => ~r_money0.raised
  /\ (fpc = "done" /\ fdf = EmptyDf) => ~r_money2.raised

\* C6: after a build that ran to completion the output directory exists and
\* holds the index.html of this run and a copy of the spreadsheet equal to
\* the input, whatever the directory held before; the input spreadsheet is
\* as it was; the completion lines are printed only after both files are
\* written.
C6_OutputsAfterBuild ==
  /\ pc \in {"print", "done"} =>
       /\ dist = "dir"
       /\ files[INDEX_HTML] = File(html)
       /\ files[EXCEL_COPY].file
       /\ files[EXCEL_COPY] = input0
  /\ files[INPUT_XLSX] = input0
  /\ stdout # <<>> =>
       /\ Len(stdout) = 2
       /\ {"index.html", "excel_copy"} \subseteq wrote
       /\ files[INDEX_HTML] = File(html)
       /\ files[EXCEL_COPY] = input0

\* a second run has completed over the files the first one left
C6_Witness ==
  /\ pc = "done" /\ run = 2 /\ stdout # <<>>
  /\ Len(pages) = 2 /\ files[INDEX_HTML] = File(pages[2])
  /\ files[EXCEL_COPY] = File(Xlsx("xlsx_b"))

\* the labels of ColumnNames that contain the rupee glyph or, in any case of
\* letters, one of the nine keywords
CurrencyLabels ==
  {Name_Target, Name_Glyph, Name_AMOUNT, Name_Value, Name_Paid, Name_Balance,
   Name_Excess, Name_Collected, Name_Transferred, Name_Share}

WellGrouped(s, d) ==
  LET body == IF s # <<>> /\ s[1] = "-" THEN Tail(s) ELSE s
      n    == IF d = 0 THEN Len(body) ELSE Len(body) - d - 1
  IN  /\ n >= 1
      /\ d > 0 => /\ body[n + 1] = "."
                  /\ \A i \in (n + 2)..Len(body) : IsDigit(body[i])
      /\ body[1] # ","
      /\ \A i \in 1..n : IF (n - i + 1) % 4 = 0 THEN body[i] = "," ELSE IsDigit(body[i])

\* C8: money0 and money2 give None, NaN and 0 the same string (the rupee sign
\* and 0, or 0.00); a value that coerces to a number gives the rupee sign and
\* the number grouped in thousands (1234.5 gives 1,234 and 1,234.50); a value
\* whose coercion fails gives its plain string form.
C8_MoneyFormat ==
  (fpc = "done" /\ fdf = EmptyDf) =>
    /\ fx \in {NoneV, NanV, NumV(0)} =>
         r_money0 = Ret(Str_Money0_Zero) /\ r_money2 = Ret(Str_Money2_Zero)
    /\ fx = NumV(123450) =>
         r_money0 = Ret(Str_Money0_1234) /\ r_money2 = Ret(Str_Money2_1234)
    /\ (fx.k \in {"bool", "num"} \/ (fx.k = "text" /\ ~ParseFloat(fx.s).raised)) =>
         /\ Head(r_money0.s) = RUPEE /\ WellGrouped(Tail(r_money0.s), 0)
         /\ Head(r_money2.s) = RUPEE /\ WellGrouped(Tail(r_money2.s), 2)
    /\ fx.k = "inf" => Head(r_money0.s) = RUPEE /\ Head(r_money2.s) = RUPEE
    /\ (fx.k = "text" /\ ParseFloat(fx.s).raised) =>
         r_money0 = Ret(fx.s) /\ r_money2 = Ret(fx.s)
    /\ fx.k = "date" =>
         r_money0 = Ret(IsoFormat(fx.day, fx.dt)) /\ r_money2 = r_money0

\* 1234.5 has been formatted both ways
C8_Witness ==
  /\ fpc = "done" /\ fx = NumV(123450)
  /\ r_money0.s = Str_Money0_1234 /\ r_money2.s = Str_Money2_1234

\* C9: among the slots built as chart markup, in the order month, profit,
\* cat_qty, pending_val, the first bundles the charting library reference and
\* the later ones omit it, so a page with a built chart holds the reference
\* exactly once.
C9_FirstBuiltBundlesLibrary ==
  pc \in {"template", "render", "write", "copy", "print", "done"} =>
    LET built == {i \in 1..Len(Slots) : charts[Slots[i]].markup}
    IN  \A i \in built :
          charts[Slots[i]].plotlyjs = (IF \A j \in built : i <= j THEN "cdn" ELSE "no")

\* C10: with the input file, both sheets and the template present, no
\* content of a KPI cell aborts the run; the quantity KPIs are shown as an
\* integer when the cell holds a number and as the em-dash when it is empty.
C10_KpiNeverAborts ==
  (fault = "none" /\ wb.headers = StandardHeaders) =>
    /\ pc # "aborted"
    /\ pc \in {"write", "copy", "print", "done"} =>
         \A q \in {"qty_sold", "qty_pending"} :
           /\ wb.kpi[q].k = "none" => html.values[q] = <<EM_DASH>>
           /\ wb.kpi[q].k = "num" => IsAllDigits(html.values[q])

====
